---------------------------- MODULE Spec2Model ----------------------------
(***************************************************************************)
(* A model of mix_audio.py: the SNR mixing pipeline of process_combination *)
(* (length alignment, RMS-based noise scaling, clip-safe normalisation),   *)
(* the planning loop of main, the multiprocessing pool that runs the       *)
(* planned items, and the final summary.                                   *)
(*                                                                         *)
(* Strings are sequences of one-character strings, so that concatenation,  *)
(* basename, splitext and startswith are computed, not assumed.            *)
(* Samples are fixed-point numbers: the float 1.0 is the integer Scale.    *)
(***************************************************************************)
EXTENDS Integers, Sequences, FiniteSets, TLC

VARIABLES
    \* ---- the environment main() runs in
    target_files,    \* sorted(glob(target_dir/*.wav))
    noise_files,     \* sorted(glob(noise_dir/*.wav))
    cpu_count,       \* multiprocessing.cpu_count()
    write_fails,     \* indexes of the items whose os.makedirs / sf.write fails
    \* ---- main()
    pc,              \* position of main (or of the pipeline in MixSpec)
    plan_i, plan_j, plan_l,   \* the three loop counters of the planning loops
    tasks,           \* the list of planned tuples
    num_processes,   \* size of the pool
    next_task,       \* number of tasks the pool has handed to workers
    running,         \* indexes of the tasks some worker is executing
    out_of_order,    \* history: some task finished before an earlier one
    raised,          \* history: indexes of the tasks whose body raised
    it_items,        \* imap iterator: results ready to be yielded, in order
    it_unsorted,     \* imap iterator: results that arrived ahead of their turn
    it_index,        \* imap iterator: index of the next result to release
    results,         \* the list main builds from the iterator
    disk,            \* files written by sf.write: records [path, by, data]
    success_count, error_count, errors, printed, suppressed,
    \* ---- the body of process_combination, one statement at a time
    speech,          \* the loaded speech signal
    noise_loaded,    \* the noise signal as loaded (and resampled)
    noise,           \* the local variable noise
    snr_value,       \* the target SNR of the item, in dB
    adjusted_noise,
    mixed_audio

vars == << target_files, noise_files, cpu_count, write_fails, pc, plan_i, plan_j,
           plan_l, tasks, num_processes, next_task, running, out_of_order, raised,
           it_items, it_unsorted, it_index, results, disk, success_count,
           error_count, errors, printed, suppressed, speech, noise_loaded,
           noise, snr_value, adjusted_noise, mixed_audio >>

envVars  == << target_files, noise_files, cpu_count, write_fails >>
planVars == << plan_i, plan_j, plan_l, tasks >>
poolVars == << num_processes, next_task, running, out_of_order, raised,
               it_items, it_unsorted, it_index, disk >>
sumVars  == << success_count, error_count, errors, printed, suppressed >>
mixVars  == << speech, noise_loaded, noise, snr_value, adjusted_noise,
               mixed_audio >>

-----------------------------------------------------------------------------
(* Bounds of the model.                                                    *)

MaxSpeechFiles == 2
MaxNoiseFiles == 2
MaxCpu == 3
MaxSpeechLen == 3
MaxNoiseLen == 3
MaxWriteFail == 1
MaxResults == 12

-----------------------------------------------------------------------------
(* Strings.                                                                *)

\* The characters the model uses, in code-point order (Python compares
\* strings by code point).
CharOrder ==
    << " ", ".", "/", "0", "2", "5", ":", "E", "I", "R", "S", "_",
       "a", "c", "d", "e", "g", "h", "i", "l", "m", "n", "o", "p", "r", "s",
       "t", "u", "v", "w", "x", "y", "z" >>

Ord(c) == CHOOSE i \in DOMAIN CharOrder : CharOrder[i] = c

\* Python's s < t on strings.
RECURSIVE StrLess(_, _)
StrLess(s, t) ==
    IF t = << >> THEN FALSE
    ELSE IF s = << >> THEN TRUE
    ELSE IF Head(s) = Head(t) THEN StrLess(Tail(s), Tail(t))
    ELSE Ord(Head(s)) < Ord(Head(t))

\* str.startswith
StartsWith(s, prefix) ==
    /\ Len(s) >= Len(prefix)
    /\ SubSeq(s, 1, Len(prefix)) = prefix

RECURSIVE RFindFrom(_, _, _)
RFindFrom(s, c, i) ==
    IF i = 0 THEN 0 ELSE IF s[i] = c THEN i ELSE RFindFrom(s, c, i - 1)

\* The greatest index of character c in s, 0 when there is none (rfind + 1).
RFind(s, c) == RFindFrom(s, c, Len(s))

SeqOfSet(S) == SortSeq(CHOOSE f \in [1..Cardinality(S) -> S] :
                           \A x \in S : \E i \in DOMAIN f : f[i] = x,
                       StrLess)

-----------------------------------------------------------------------------
(* Module-level configuration (lines 11-20).                               *)

target_dir == << "S", "E", "R", "_", "I", "S", "2", "0", "2", "5" >>
noise_dir == << "n", "o", "i", "s", "e", "_", "a", "u", "d", "i", "o" >>

\* The dict snr_levels, in insertion order.
snr_levels ==
    << [name |-> << "e", "a", "s", "y" >>, snr |-> 6],
       [name |-> << "n", "o", "r", "m", "a", "l" >>, snr |-> 2],
       [name |-> << "h", "a", "r", "d" >>, snr |-> -1] >>

-----------------------------------------------------------------------------
(* Floating point, in fixed point.  A finite float x is the integer        *)
(* round-towards-zero(x * Scale); nan and the infinities are three values   *)
(* outside the range of the finite ones.                                   *)

Scale == 1000
NaN == 2000000000
PosInf == 2000000001
NegInf == 2000000002

IsFinite(a) == a \notin {NaN, PosInf, NegInf}

Abs(a) == IF a < 0 THEN -a ELSE a
Min(a, b) == IF a <= b THEN a ELSE b

\* Integer quotient rounded towards zero.
TruncDiv(a, b) == IF (a < 0) = (b < 0) THEN Abs(a) \div Abs(b) ELSE -(Abs(a) \div Abs(b))

\* a / b on numpy scalars, a and b finite: division by zero warns and
\* yields inf or nan, it does not raise.
FDiv(a, b) ==
    IF b = 0
    THEN (IF a = 0 THEN NaN ELSE IF a > 0 THEN PosInf ELSE NegInf)
    ELSE TruncDiv(a * Scale, b)

\* n * f, n a finite sample, f a finite factor, nan or +inf.
FMul(n, f) ==
    IF f = NaN THEN NaN
    ELSE IF f = PosInf THEN (IF n = 0 THEN NaN ELSE IF n > 0 THEN PosInf ELSE NegInf)
    ELSE IF f = NegInf THEN (IF n = 0 THEN NaN ELSE IF n > 0 THEN NegInf ELSE PosInf)
    ELSE TruncDiv(n * f, Scale)

\* a + b, a finite.
FAdd(a, b) == IF IsFinite(b) THEN a + b ELSE b

FAbs(a) == IF a = NaN THEN NaN ELSE IF IsFinite(a) THEN Abs(a) ELSE PosInf

\* a > b, b finite: every comparison with nan is false.
FGt(a, b) == a = PosInf \/ (IsFinite(a) /\ a > b)

\* m / p, p the peak of the signal m belongs to (p > 1.0).
FDivPeak(m, p) ==
    IF m = NaN THEN NaN
    ELSE IF p = PosInf THEN (IF IsFinite(m) THEN 0 ELSE NaN)
    ELSE TruncDiv(m * Scale, p)

RECURSIVE IsqrtIn(_, _, _)
IsqrtIn(x, lo, hi) ==
    IF lo >= hi THEN lo
    ELSE LET mid == (lo + hi + 1) \div 2
         IN  IF mid * mid <= x THEN IsqrtIn(x, mid, hi) ELSE IsqrtIn(x, lo, mid - 1)

\* np.sqrt of a finite non-negative value: the integer square root.
Sqrt(x) == IsqrtIn(x, 0, 46340)

RECURSIVE SumSq(_)
SumSq(audio) ==
    IF audio = << >> THEN 0 ELSE Head(audio) * Head(audio) + SumSq(Tail(audio))

\* np.mean(np.square(audio)), in units of 1/Scale^2.
MeanSquare(audio) == SumSq(audio) \div Len(audio)

\* np.max(np.abs(x)): nan if any sample is nan.
RECURSIVE MaxAbs(_)
MaxAbs(x) ==
    IF Len(x) = 1 THEN FAbs(x[1])
    ELSE LET h == FAbs(Head(x))
             t == MaxAbs(Tail(x))
         IN  IF h = NaN \/ t = NaN THEN NaN
             ELSE IF h = PosInf \/ t = PosInf THEN PosInf
             ELSE IF h >= t THEN h ELSE t

\* 10 ** x for the exponents the model needs, x given in hundredths.
TenPow(x100) ==
    CASE x100 = 60  -> 3981
      [] x100 = 20  -> 1585
      [] x100 = -10 -> 794
      [] x100 = 55  -> 3548
      [] x100 = 65  -> 4467
      [] x100 = 15  -> 1413
      [] x100 = 25  -> 1778
      [] x100 = -15 -> 708
      [] x100 = -5  -> 891

-----------------------------------------------------------------------------
(* SignalOps (lines 23-43 and 70-88).                                      *)

calculate_rms(audio) == Sqrt(MeanSquare(audio))

\* line 35: speech_rms / (10 ** (target_snr / 10))
TargetNoiseRms(speech_rms, target_snr) ==
    TruncDiv(speech_rms * Scale, TenPow(target_snr * 10))

adjust_noise_to_snr(sp, no, target_snr) ==
    LET speech_rms == calculate_rms(sp)
        noise_rms == calculate_rms(no)
        target_noise_rms == TargetNoiseRms(speech_rms, target_snr)
        adjustment_factor == FDiv(target_noise_rms, noise_rms)
    IN  [k \in DOMAIN no |-> FMul(no[k], adjustment_factor)]

\* math.ceil(a / b)
CeilDiv(a, b) == (a + b - 1) \div b

\* np.tile(x, repetitions)
RECURSIVE Tile(_, _)
Tile(x, repetitions) ==
    IF repetitions <= 0 THEN << >> ELSE x \o Tile(x, repetitions - 1)

\* RepeatNoise with the repetition count rounded down instead of up.
RepeatNoiseFloor(no, sp) ==
    IF Len(no) < Len(sp) THEN Tile(no, Len(sp) \div Len(no)) ELSE no

\* lines 71-74: the noise is repeated only when it is shorter than the speech.
RepeatNoise(no, sp) ==
    IF Len(no) < Len(sp) THEN Tile(no, CeilDiv(Len(sp), Len(no))) ELSE no

\* line 77: noise[:len(speech)]
TruncateNoise(no, sp) == SubSeq(no, 1, Min(Len(no), Len(sp)))

\* line 83: speech + adjusted_noise
MixSignals(sp, adj) == [k \in DOMAIN sp |-> FAdd(sp[k], adj[k])]

\* The greatest sample of a finite signal, sign kept.
RECURSIVE MaxSigned(_)
MaxSigned(x) ==
    IF Len(x) = 1 THEN x[1]
    ELSE LET t == MaxSigned(Tail(x)) IN IF Head(x) >= t THEN Head(x) ELSE t

\* Normalize with the peak taken as np.max(mixed), np.abs forgotten.
NormalizeNoAbs(mixed) ==
    LET max_abs_value == IF \A k \in DOMAIN mixed : IsFinite(mixed[k])
                         THEN MaxSigned(mixed) ELSE NaN
    IN  IF FGt(max_abs_value, Scale)
        THEN [k \in DOMAIN mixed |-> FDivPeak(mixed[k], max_abs_value)]
        ELSE mixed

\* lines 86-88
Normalize(mixed) ==
    LET max_abs_value == MaxAbs(mixed)
    IN  IF FGt(max_abs_value, Scale)
        THEN [k \in DOMAIN mixed |-> FDivPeak(mixed[k], max_abs_value)]
        ELSE mixed

-----------------------------------------------------------------------------
(* File names and the files on disk.                                       *)

Wav == << ".", "w", "a", "v" >>

\* os.path.join(dir, name), name relative
PathJoin(dir, name) == dir \o << "/" >> \o name

\* os.path.basename
BaseName(filepath) == SubSeq(filepath, RFind(filepath, "/") + 1, Len(filepath))

\* os.path.splitext(p)[0]: the extension starts at the last dot, unless
\* only dots precede it.
SplitExtRoot(p) ==
    LET sep == RFind(p, "/")
        dot == RFind(p, ".")
    IN  IF dot > sep /\ \E i \in (sep + 1)..(dot - 1) : p[i] # "."
        THEN SubSeq(p, 1, dot - 1)
        ELSE p

\* The name cut at its first dot (name.split('.')[0]) instead of its last.
CutAtFirstDot(filepath) ==
    LET b == BaseName(filepath)
    IN  IF \E i \in DOMAIN b : b[i] = "."
        THEN SubSeq(b, 1, (CHOOSE i \in DOMAIN b :
                               b[i] = "." /\ \A j \in 1..(i - 1) : b[j] # ".") - 1)
        ELSE b

get_filename_without_extension(filepath) == SplitExtRoot(BaseName(filepath))

\* The *.wav files a directory may hold, by base name.
SpeechCatalog ==
    { << "n" >> \o Wav, << "s" >> \o Wav, << "s", ".", "x" >> \o Wav }
NoiseCatalog ==
    { << "n" >> \o Wav, << "n", ".", "x" >> \o Wav, << "n", "_", "n" >> \o Wav }

DecodeError == << "d", "e", "c", "o", "d", "e" >>
EncodeError == << "e", "n", "c", "o", "d", "e" >>

\* librosa.load(path, sr=None): the samples of the file, or an exception.
\* One speech file and one noise file cannot be decoded; one noise file is
\* digital silence.  Every file has the same sampling rate.
Load(path) ==
    CASE path = PathJoin(target_dir, << "n" >> \o Wav)           -> [ok |-> TRUE, data |-> << 600, -900 >>]
      [] path = PathJoin(target_dir, << "s" >> \o Wav)           -> [ok |-> TRUE, data |-> << 600 >>]
      [] path = PathJoin(target_dir, << "s", ".", "x" >> \o Wav) -> [ok |-> FALSE, data |-> << >>]
      [] path = PathJoin(noise_dir, << "n" >> \o Wav)            -> [ok |-> TRUE, data |-> << 300 >>]
      [] path = PathJoin(noise_dir, << "n", ".", "x" >> \o Wav)  -> [ok |-> TRUE, data |-> << 0, 0 >>]
      [] path = PathJoin(noise_dir, << "n", "_", "n" >> \o Wav)  -> [ok |-> FALSE, data |-> << >>]

\* sorted(glob(os.path.join(dir, '*.wav'))) for a directory holding `names`
Glob(dir, names) == SeqOfSet({ PathJoin(dir, n) : n \in names })

-----------------------------------------------------------------------------
(* process_combination (lines 53-108).                                     *)

\* line 94
OutputDir(level_name, noise_id) == level_name \o << "_" >> \o noise_id

\* lines 91-101
OutputPath(args) ==
    PathJoin(OutputDir(args.level_name, get_filename_without_extension(args.noise_file)),
             get_filename_without_extension(args.target_file) \o Wav)

\* line 108
ErrorMessage(args, e) ==
    << "E", "r", "r", "o", "r", " ", "p", "r", "o", "c", "e", "s", "s", "i", "n", "g", " " >>
    \o args.target_file \o << " ", "w", "i", "t", "h", " " >> \o args.noise_file
    \o << " ", "a", "t", " " >> \o args.level_name
    \o << " ", "l", "e", "v", "e", "l", ":", " " >> \o e

\* lines 70-88 on loaded signals
MixPipeline(sp, no, snr) ==
    LET tiled == RepeatNoise(no, sp)
        cut == TruncateNoise(tiled, sp)
        adj == adjust_noise_to_snr(sp, cut, snr)
    IN  Normalize(MixSignals(sp, adj))

\* The body without its try/except: the exception leaves the function.
NoExceptClause(args, e) ==
    [raised |-> TRUE, propagates |-> TRUE, value |-> e, wrote |-> { }]

\* line 107: `except Exception` catches every exception the body raises.
ExceptClause(args, e) ==
    [raised |-> TRUE, propagates |-> FALSE, value |-> ErrorMessage(args, e), wrote |-> { }]

\* The whole function: what it returns and what it writes.
process_combination(args, can_write) ==
    LET sp == Load(args.target_file)
        no == Load(args.noise_file)
        output_path == OutputPath(args)
    IN  IF ~sp.ok \/ ~no.ok THEN ExceptClause(args, DecodeError)
        ELSE IF ~can_write THEN ExceptClause(args, EncodeError)
        ELSE [raised |-> FALSE, propagates |-> FALSE, value |-> output_path,
              wrote |-> { [path |-> output_path, by |-> args.idx,
                           data |-> MixPipeline(sp.data, no.data, args.snr_value)] }]

-----------------------------------------------------------------------------
(* MixSpec: the numeric body of process_combination (lines 70-88), one      *)
(* statement per step, on every pair of loaded signals within the bounds.  *)

SpeechSamples == { -900, 0, 600 }
NoiseSamples == { -400, 0, 300 }

Signals(samples, maxlen) == UNION { [1..k -> samples] : k \in 1..maxlen }

\* The variables of main() while only the pipeline is looked at.
BatchIdle ==
    /\ target_files = << >> /\ noise_files = << >>
    /\ cpu_count = 1 /\ write_fails = { }
    /\ plan_i = 0 /\ plan_j = 0 /\ plan_l = 0
    /\ tasks = << >>
    /\ num_processes = 0 /\ next_task = 0 /\ running = { }
    /\ out_of_order = FALSE /\ raised = { }
    /\ it_items = << >> /\ it_unsorted = { } /\ it_index = 1
    /\ results = << >> /\ disk = { }
    /\ success_count = 0 /\ error_count = 0 /\ errors = << >>
    /\ printed = << >> /\ suppressed = 0

batchVars == << envVars, planVars, poolVars, results, sumVars >>

MixInit ==
    /\ BatchIdle
    /\ pc = "tile"
    /\ speech \in Signals(SpeechSamples, MaxSpeechLen)
    /\ noise_loaded \in Signals(NoiseSamples, MaxNoiseLen)
    /\ noise = noise_loaded
    /\ snr_value \in { snr_levels[l].snr : l \in DOMAIN snr_levels }
    /\ adjusted_noise = << >>
    /\ mixed_audio = << >>

\* lines 71-74
TileStep ==
    /\ pc = "tile"
    /\ noise' = RepeatNoise(noise, speech)
    /\ pc' = "truncate"
    /\ UNCHANGED << batchVars, speech, noise_loaded, snr_value, adjusted_noise, mixed_audio >>

\* line 77
TruncateStep ==
    /\ pc = "truncate"
    /\ noise' = TruncateNoise(noise, speech)
    /\ pc' = "adjust"
    /\ UNCHANGED << batchVars, speech, noise_loaded, snr_value, adjusted_noise, mixed_audio >>

\* line 80
AdjustStep ==
    /\ pc = "adjust"
    /\ adjusted_noise' = adjust_noise_to_snr(speech, noise, snr_value)
    /\ pc' = "mix"
    /\ UNCHANGED << batchVars, speech, noise_loaded, noise, snr_value, mixed_audio >>

\* line 83
MixStep ==
    /\ pc = "mix"
    /\ mixed_audio' = MixSignals(speech, adjusted_noise)
    /\ pc' = "normalize"
    /\ UNCHANGED << batchVars, speech, noise_loaded, noise, snr_value, adjusted_noise >>

\* lines 86-88
NormalizeStep ==
    /\ pc = "normalize"
    /\ mixed_audio' = Normalize(mixed_audio)
    /\ pc' = "mixed"
    /\ UNCHANGED << batchVars, speech, noise_loaded, noise, snr_value, adjusted_noise >>

MixNext == TileStep \/ TruncateStep \/ AdjustStep \/ MixStep \/ NormalizeStep

MixSpec == MixInit /\ [][MixNext]_vars

-----------------------------------------------------------------------------
(* main (lines 110-150): planning, the pool, the summary.                  *)

\* The tuple with a 0-based index (task_idx = len(tasks)).
TaskZeroBased(target_file, noise_file, level, task_idx) ==
    [target_file |-> target_file, noise_file |-> noise_file,
     level_name |-> level.name, snr_value |-> level.snr, idx |-> task_idx - 1]

Task(target_file, noise_file, level, task_idx) ==
    [target_file |-> target_file, noise_file |-> noise_file,
     level_name |-> level.name, snr_value |-> level.snr, idx |-> task_idx]

\* The directories hold any files of the catalogs, within the bounds.
Init ==
    /\ \E sn \in SUBSET SpeechCatalog, nn \in SUBSET NoiseCatalog :
           /\ Cardinality(sn) <= MaxSpeechFiles
           /\ Cardinality(nn) <= MaxNoiseFiles
           /\ target_files = Glob(target_dir, sn)      \* line 112
           /\ noise_files = Glob(noise_dir, nn)        \* line 113
    /\ cpu_count \in { 1, MaxCpu }
    /\ write_fails \in SUBSET (1..MaxWriteFail)
    /\ pc = "plan"
    /\ plan_i = 1 /\ plan_j = 1 /\ plan_l = 1
    /\ tasks = << >>
    /\ num_processes = 0 /\ next_task = 0 /\ running = { }
    /\ out_of_order = FALSE /\ raised = { }
    /\ it_items = << >> /\ it_unsorted = { } /\ it_index = 1
    /\ results = << >> /\ disk = { }
    /\ success_count = 0 /\ error_count = 0 /\ errors = << >>
    /\ printed = << >> /\ suppressed = 0
    /\ speech = << >> /\ noise_loaded = << >> /\ noise = << >>
    /\ snr_value = 0 /\ adjusted_noise = << >> /\ mixed_audio = << >>

\* Whether the three nested loops still have a triple to visit.
PlanMore == plan_i <= Len(target_files) /\ Len(noise_files) > 0

\* lines 119-123: one pass of the innermost loop body
PlanStep ==
    /\ pc = "plan"
    /\ PlanMore
    /\ LET task_idx == Len(tasks) + 1
       IN  tasks' = Append(tasks, Task(target_files[plan_i], noise_files[plan_j],
                                       snr_levels[plan_l], task_idx))
    /\ IF plan_l < Len(snr_levels)
       THEN /\ plan_l' = plan_l + 1
            /\ UNCHANGED << plan_i, plan_j >>
       ELSE /\ plan_l' = 1
            /\ IF plan_j < Len(noise_files)
               THEN plan_j' = plan_j + 1 /\ UNCHANGED plan_i
               ELSE plan_j' = 1 /\ plan_i' = plan_i + 1
    /\ UNCHANGED << envVars, pc, poolVars, results, sumVars, mixVars >>

\* int(multiprocessing.cpu_count() * 0.8)
EightyPercent(n) == (n * 8) \div 10

\* lines 125-133: the loops are over; the pool is created, whatever the
\* number of tasks.
StartPool ==
    /\ pc = "plan"
    /\ ~PlanMore
    /\ num_processes' = (IF EightyPercent(cpu_count) > 1 THEN EightyPercent(cpu_count) ELSE 1)
    /\ pc' = "imap"
    /\ UNCHANGED << envVars, planVars, next_task, running, out_of_order, raised,
                    it_items, it_unsorted, it_index, disk, results, sumVars, mixVars >>

\* A free worker takes the next task of the queue.
WorkerTake ==
    /\ pc = "imap"
    /\ next_task < Len(tasks)
    /\ Cardinality(running) < num_processes
    /\ next_task' = next_task + 1
    /\ running' = running \cup { next_task + 1 }
    /\ UNCHANGED << envVars, pc, planVars, num_processes, out_of_order, raised,
                    it_items, it_unsorted, it_index, disk, results, sumVars, mixVars >>

\* The results the iterator can release once index is due.
RECURSIVE Release(_, _, _)
Release(items, unsorted, index) ==
    IF \E u \in unsorted : u.i = index
    THEN LET u == CHOOSE u \in unsorted : u.i = index
         IN  Release(Append(items, u.obj), unsorted \ { u }, index + 1)
    ELSE [items |-> items, unsorted |-> unsorted, index |-> index]

\* imap_unordered's iterator: a result is released as it arrives.
IterSetUnordered(items, unsorted, index, i, obj) ==
    [items |-> Append(items, obj), unsorted |-> unsorted, index |-> index + 1]

\* imap's iterator receiving the result of task i: it is released if it is
\* the next one due, with the later ones that were waiting for it, and is
\* put aside otherwise.
IterSet(items, unsorted, index, i, obj) ==
    IF index = i
    THEN Release(Append(items, obj), unsorted, index + 1)
    ELSE [items |-> items, unsorted |-> unsorted \cup { [i |-> i, obj |-> obj] },
          index |-> index]

\* A worker runs process_combination on its task and sends the result back.
WorkerFinish(k) ==
    /\ pc = "imap"
    /\ k \in running
    /\ LET r == process_combination(tasks[k], k \notin write_fails)
           it == IterSet(it_items, it_unsorted, it_index, k, r)
       IN  /\ raised' = (IF r.raised THEN raised \cup { k } ELSE raised)
           /\ disk' = disk \cup r.wrote
           /\ it_items' = it.items
           /\ it_unsorted' = it.unsorted
           /\ it_index' = it.index
    /\ running' = running \ { k }
    /\ out_of_order' = (out_of_order \/ \E j \in running : j < k)
    /\ UNCHANGED << envVars, pc, planVars, num_processes, next_task, results,
                    sumVars, mixVars >>

\* line 134: list(...) takes the released results off the iterator, in
\* order, until every task's result was taken.  An exception that left
\* process_combination is raised again here, in main.
Collect ==
    /\ pc = "imap"
    /\ Len(it_items) = Len(tasks)
    /\ IF \E k \in DOMAIN it_items : it_items[k].propagates
       THEN pc' = "crashed" /\ UNCHANGED results
       ELSE /\ results' = [k \in DOMAIN it_items |-> it_items[k].value]
            /\ pc' = "count_success"
    /\ it_items' = << >>
    /\ UNCHANGED << envVars, planVars, num_processes, next_task, running,
                    out_of_order, raised, it_unsorted, it_index, disk,
                    sumVars, mixVars >>

ErrorPrefix == << "E", "r", "r", "o", "r" >>
PrintLimit == 10

RECURSIVE CountIf(_, _)
CountIf(rs, want_error) ==
    IF rs = << >> THEN 0
    ELSE (IF StartsWith(Head(rs), ErrorPrefix) = want_error THEN 1 ELSE 0)
         + CountIf(Tail(rs), want_error)

IsErrorResult(r) == StartsWith(r, ErrorPrefix)

\* line 137
CountSuccess ==
    /\ pc = "count_success"
    /\ success_count' = CountIf(results, FALSE)
    /\ pc' = "count_errors"
    /\ UNCHANGED << envVars, planVars, poolVars, results, error_count, errors,
                    printed, suppressed, mixVars >>

\* line 138
CountErrors ==
    /\ pc = "count_errors"
    /\ error_count' = CountIf(results, TRUE)
    /\ pc' = "print"
    /\ UNCHANGED << envVars, planVars, poolVars, results, success_count, errors,
                    printed, suppressed, mixVars >>

\* errors[:11]
FirstErrorsOneMore(errs) == SubSeq(errs, 1, Min(Len(errs), PrintLimit + 1))

\* errors[:10]
FirstErrors(errs) == SubSeq(errs, 1, Min(Len(errs), PrintLimit))

\* lines 140-150
PrintSummary ==
    /\ pc = "print"
    /\ IF error_count > 0
       THEN /\ errors' = SelectSeq(results, IsErrorResult)
            /\ printed' = FirstErrors(errors')
            /\ suppressed' = (IF Len(errors') > PrintLimit
                              THEN Len(errors') - PrintLimit ELSE 0)
       ELSE UNCHANGED << errors, printed, suppressed >>
    /\ pc' = "done"
    /\ UNCHANGED << envVars, planVars, poolVars, results, success_count,
                    error_count, mixVars >>

Next ==
    \/ PlanStep
    \/ StartPool
    \/ WorkerTake
    \/ \E k \in running : WorkerFinish(k)
    \/ Collect
    \/ CountSuccess
    \/ CountErrors
    \/ PrintSummary

Spec == Init /\ [][Next]_vars

-----------------------------------------------------------------------------
(* ReportSpec: the summary (lines 136-150) on the results of every batch   *)
(* of up to MaxResults items in which any of the items failed to write.    *)

\* The list the loops of lines 118-123 build.
PlanAll(tf, nf) ==
    LET nl == Len(snr_levels)
    IN  [p \in 1..(Len(tf) * Len(nf) * nl) |->
            Task(tf[((p - 1) \div (Len(nf) * nl)) + 1],
                 nf[(((p - 1) \div nl) % Len(nf)) + 1],
                 snr_levels[((p - 1) % nl) + 1],
                 p)]

ReportInit ==
    /\ \E sn \in SUBSET SpeechCatalog, nn \in SUBSET NoiseCatalog :
           /\ Cardinality(sn) * Cardinality(nn) * Len(snr_levels) <= MaxResults
           /\ target_files = Glob(target_dir, sn)
           /\ noise_files = Glob(noise_dir, nn)
    /\ tasks = PlanAll(target_files, noise_files)
    /\ plan_i = (IF Len(noise_files) > 0 THEN Len(target_files) + 1 ELSE 1)
    /\ plan_j = 1 /\ plan_l = 1
    /\ cpu_count = 1 /\ num_processes = 1
    /\ write_fails \in SUBSET (DOMAIN tasks)
    /\ next_task = Len(tasks) /\ running = { } /\ out_of_order = FALSE
    /\ LET r == [k \in DOMAIN tasks |-> process_combination(tasks[k], k \notin write_fails)]
       IN  /\ raised = { k \in DOMAIN tasks : r[k].raised }
           /\ disk = UNION { r[k].wrote : k \in DOMAIN tasks }
           /\ it_items = << >>
           /\ results = [k \in DOMAIN tasks |-> r[k].value]
    /\ it_unsorted = { } /\ it_index = Len(tasks) + 1
    /\ pc = "count_success"
    /\ success_count = 0 /\ error_count = 0 /\ errors = << >>
    /\ printed = << >> /\ suppressed = 0
    /\ speech = << >> /\ noise_loaded = << >> /\ noise = << >>
    /\ snr_value = 0 /\ adjusted_noise = << >> /\ mixed_audio = << >>

ReportNext == CountSuccess \/ CountErrors \/ PrintSummary

ReportSpec == ReportInit /\ [][ReportNext]_vars

-----------------------------------------------------------------------------
(* Claims about the signal pipeline, checked under MixSpec.                *)

AllFinite(x) == \A k \in DOMAIN x : IsFinite(x[k])

\* The greatest absolute value of a finite, non-empty signal.
Peak(x) == CHOOSE m \in { Abs(x[k]) : k \in DOMAIN x } :
               \A k \in DOMAIN x : Abs(x[k]) <= m

\* C8: once the noise is aligned it has exactly the length of the speech and
\* its k-th sample (from 0) is sample k mod len(N) of the loaded noise N; and
\* when len(speech) <= len(N) the tiling statement leaves the noise as
\* loaded, so the result is the plain prefix of N.
C8_AlignLength ==
    /\ pc \notin { "tile", "truncate" } =>
          /\ Len(noise) = Len(speech)
          /\ \A k \in 0..(Len(speech) - 1) :
                 noise[k + 1] = noise_loaded[(k % Len(noise_loaded)) + 1]
    /\ (pc = "truncate" /\ Len(speech) <= Len(noise_loaded)) => noise = noise_loaded

\* C8 witness: alignment has run on a noise shorter than the speech whose
\* length does not divide the speech's, with samples that differ.
C8_Witness ==
    /\ pc = "adjust"
    /\ Len(noise_loaded) = 2 /\ Len(speech) = 3
    /\ noise_loaded[1] # noise_loaded[2]

\* C9 (as claimed): after scaling, for speech and noise of nonzero RMS, the
\* achieved SNR 10*log10(speech_power / adjusted_noise_power) is within
\* 0.5 dB of the target, i.e. the power ratio lies between
\* 10^((target - 0.5)/10) and 10^((target + 0.5)/10).
C9_AchievedSnrIsTarget ==
    (/\ pc \in { "mix", "normalize", "mixed" }
     /\ calculate_rms(speech) > 0
     /\ calculate_rms(noise) > 0)
    => LET speech_power == MeanSquare(speech)
           noise_power == MeanSquare(adjusted_noise)
           ratio == (speech_power * Scale) \div noise_power
       IN  /\ TenPow(snr_value * 10 - 5) <= ratio
           /\ ratio <= TenPow(snr_value * 10 + 5)

\* C10: for finite speech and adjusted noise, the output never has a peak
\* above 1.0; when the peak of the plain sum exceeds 1.0 the output is the
\* sum divided by that peak (its peak is 1.0 and each sample times the peak
\* is the sum's sample, up to the rounding of one division); otherwise the
\* output is the plain sum.
C10_MixAndNormalize ==
    (pc = "mixed" /\ AllFinite(adjusted_noise)) =>
        LET sum == [k \in DOMAIN speech |-> speech[k] + adjusted_noise[k]]
            peak == Peak(sum)
        IN  /\ AllFinite(mixed_audio)
            /\ Peak(mixed_audio) <= Scale
            /\ peak > Scale =>
                  /\ Peak(mixed_audio) = Scale
                  /\ \A k \in DOMAIN sum :
                         Abs(mixed_audio[k] * peak - sum[k] * Scale) < peak
            /\ peak <= Scale => mixed_audio = sum

\* C10 witness: a sum whose peak is above 1.0, reached by a negative sample,
\* has been normalised, next to a smaller sample of the other sign.
C10_Witness ==
    /\ pc = "mixed"
    /\ AllFinite(adjusted_noise)
    /\ \E k, j \in DOMAIN speech :
           /\ speech[k] + adjusted_noise[k] < -Scale
           /\ speech[j] + adjusted_noise[j] > 0
           /\ mixed_audio[k] = -Scale
           /\ mixed_audio[j] > 0

-----------------------------------------------------------------------------
(* Claims about the batch, checked under Spec.                             *)

Collected == pc \in { "count_success", "count_errors", "print", "done" }

\* The result item k has to produce: what its own execution returns.
OwnResult(k) == process_combination(tasks[k], k \notin write_fails).value

\* C1: the batch never aborts on an item's exception; once the results are
\* returned there are exactly as many as items submitted, every item whose
\* body raised has an error result naming its own files and level, and
\* every other item has its own output path as result and wrote its file.
C1_ErrorsCaughtPerItem ==
    /\ pc # "crashed"
    /\ Collected =>
          /\ Len(results) = Len(tasks)
          /\ \A k \in DOMAIN tasks :
                 IF k \in raised
                 THEN \E e \in { DecodeError, EncodeError } :
                          results[k] = ErrorMessage(tasks[k], e)
                 ELSE /\ results[k] = OutputPath(tasks[k])
                      /\ \E d \in disk : d.by = k /\ d.path = results[k]

\* C1 witness: a finished batch in which one item raised and another, later
\* and earlier ones included, succeeded.
C1_Witness ==
    /\ pc = "done"
    /\ \E k \in raised : \E a, b \in DOMAIN tasks \ raised : a < k /\ k < b

\* C2: whatever the order of completion, the k-th result released by the
\* iterator, and the k-th entry of the returned list, is the result of the
\* k-th submitted item.
C2_SubmissionOrder ==
    /\ \A k \in DOMAIN it_items : it_items[k].value = OwnResult(k)
    /\ Collected => \A k \in DOMAIN results : results[k] = OwnResult(k)

\* C2 witness: a batch was returned in which some item finished before an
\* item submitted earlier.
C2_Witness ==
    /\ pc = "done"
    /\ out_of_order
    /\ Len(results) >= 2

\* C3: any two distinct planned items have different output paths (there are
\* as many different output paths as items), and no path on disk was written
\* by two items.
C3_DistinctOutputPaths ==
    /\ Cardinality({ OutputPath(tasks[k]) : k \in DOMAIN tasks }) = Len(tasks)
    /\ \A d, e \in disk : d.path = e.path => d.by = e.by

\* C3 witness: a batch of two speech files, two noise files and three levels
\* has written all its twelve outputs.
C3_Witness ==
    /\ pc = "done"
    /\ Len(target_files) = 2 /\ Len(noise_files) = 2
    /\ Cardinality(disk) = 12

\* The items whose files decode and whose aligned noise has RMS zero.
SilentItems ==
    { k \in DOMAIN tasks :
        LET sp == Load(tasks[k].target_file)
            no == Load(tasks[k].noise_file)
        IN  /\ sp.ok /\ no.ok
            /\ calculate_rms(TruncateNoise(RepeatNoise(no.data, sp.data), sp.data)) = 0 }

\* C4 (as claimed): an item whose aligned noise has RMS zero fails: its
\* result is an error result, it writes no file, and it is counted as an
\* error in the summary.
C4_SilentNoiseFails ==
    Collected =>
        /\ \A k \in SilentItems :
               /\ IsErrorResult(results[k])
               /\ ~ \E d \in disk : d.by = k
        /\ pc = "done" => error_count = Cardinality(raised \cup SilentItems)

\* C5 (as claimed): with no speech file or no noise file the batch aborts
\* before planning: no item is created, no pool is started, nothing is
\* dispatched and main never reaches the pool or the summary.
C5_EmptyInputAborts ==
    (target_files = << >> \/ noise_files = << >>) =>
        /\ tasks = << >>
        /\ num_processes = 0
        /\ next_task = 0
        /\ pc = "plan"

\* The position of x in a sequence without repetitions.
Pos(seq, x) == CHOOSE i \in DOMAIN seq : seq[i] = x

\* The (speech, noise, level) positions a planned tuple was built from.
Triple(t) ==
    << Pos(target_files, t.target_file), Pos(noise_files, t.noise_file),
       CHOOSE l \in DOMAIN snr_levels : snr_levels[l].name = t.level_name >>

TripleLess(a, b) ==
    \/ a[1] < b[1]
    \/ a[1] = b[1] /\ a[2] < b[2]
    \/ a[1] = b[1] /\ a[2] = b[2] /\ a[3] < b[3]

\* C6: the item at position p carries index p and the dB value of its level;
\* each item's triple is greater than its predecessor's in speech-major, then
\* noise, then level order (so the triples are strictly increasing and none
\* appears twice); and when planning is over there is one item per triple,
\* len(speech) * len(noise) * len(levels) in all.
C6_FullCrossProduct ==
    /\ \A p \in DOMAIN tasks :
           /\ tasks[p].idx = p
           /\ tasks[p].snr_value = snr_levels[Triple(tasks[p])[3]].snr
           /\ p > 1 => TripleLess(Triple(tasks[p - 1]), Triple(tasks[p]))
    /\ pc # "plan" =>
           /\ Len(tasks) = Len(target_files) * Len(noise_files) * Len(snr_levels)
           /\ { Triple(tasks[p]) : p \in DOMAIN tasks }
                = (DOMAIN target_files) \X (DOMAIN noise_files) \X (DOMAIN snr_levels)

\* C6 witness: planning is over for two speech files and two noise files.
C6_Witness ==
    /\ pc = "imap"
    /\ Len(target_files) = 2 /\ Len(noise_files) = 2
    /\ Len(tasks) = 12

-----------------------------------------------------------------------------
(* Claim about the summary, checked under ReportSpec.                      *)

\* The m-th item, in result order, whose body raised.
NthRaised(m) == CHOOSE k \in raised : Cardinality({ j \in raised : j <= k }) = m

\* C7: success_count is the number of items that did not raise, error_count
\* the number that raised, their sum the number of results; the printed
\* errors are the first min(10, error_count) error results in result order;
\* and above 10 errors the number reported as suppressed is error_count - 10.
C7_Summary ==
    /\ pc \in { "count_errors", "print", "done" } =>
           success_count = Cardinality(DOMAIN results \ raised)
    /\ pc \in { "print", "done" } =>
           /\ error_count = Cardinality(raised)
           /\ success_count + error_count = Len(results)
    /\ pc = "done" =>
           /\ Len(printed) = Min(PrintLimit, error_count)
           /\ \A m \in DOMAIN printed : printed[m] = results[NthRaised(m)]
           /\ error_count > PrintLimit => suppressed = error_count - PrintLimit

\* C7 witness: a summary of more than 10 errors next to a success.
C7_Witness ==
    /\ pc = "done"
    /\ error_count > PrintLimit
    /\ success_count > 0
    /\ suppressed > 0

=============================================================================
